---- MODULE Spec2Model ----
(***************************************************************************)
(* Cart Service of qkart-backend (src/src/services/cart.service.js).       *)
(*                                                                         *)
(* The state is the three collections the service works on (Cart, Product  *)
(* and User), together with what the last request observed: the call, the  *)
(* status of the ApiError it threw (or NoError), the value it returned and *)
(* the in-memory user object it was handed.  One action models one whole   *)
(* handler; requests are executed one at a time.                           *)
(***************************************************************************)
EXTENDS Integers, Sequences, FiniteSets, TLC

\* ---------------------------------------------------------------- bounds
Emails == {"u1", "u2"}
ProductIds == {"p1", "p2", "p3"}
Costs == {5, 10}
\* the quantities a request may carry: 0..MaxQuantity
MaxQuantity == 2
Quantities == 0..MaxQuantity
Wallets == {0, 20, 100}
\* cap on the length of cartItems (never reached when product ids stay unique)
MaxItems == 3
\* cap on the number of Cart documents (never reached while emails stay unique)
MaxCarts == 3
\* the requests that may be in flight at the same time
Slots == {"r1", "r2"}

\* ------------------------------------------------------- http-status codes
NoError == 0
BAD_REQUEST == 400
NOT_FOUND == 404
INTERNAL_SERVER_ERROR == 500

VARIABLES
    carts,      \* Cart collection: sequence of documents [email, cartItems]
    products,   \* Product collection: product id -> cost, for the ids it holds
    users,      \* User collection: email -> [walletMoney, address]
    call,       \* the last request: [op, email, productId, quantity]
    status,     \* statusCode of the ApiError the last request threw, or NoError
    ret,        \* what the last request returned
    user,       \* the user object the last request was handed, after the call
    inflight    \* per slot, the addProductToCart call suspended at an await

vars == <<carts, products, users, call, status, ret, user, inflight>>

\* ------------------------------------------------------------ documents
ProductDoc(productId) == [_id |-> productId, cost |-> products[productId]]

\* the quantity argument dropped: every new line starts at 1
CartItemUnitQuantity(product, quantity) == [product |-> product, quantity |-> 1]

CartItem(product, quantity) == [product |-> product, quantity |-> quantity]

UserObject(email) ==
    [email |-> email,
     walletMoney |-> users[email].walletMoney,
     address |-> users[email].address]

Returned(cart) == [kind |-> "cart", cart |-> cart]
Nothing == [kind |-> "undefined"]
Thrown == [kind |-> "thrown"]

\* ------------------------------------------------------- store primitives
Min(S) == CHOOSE x \in S : \A y \in S : x <= y

\* the filter left out: the first document of the collection, whoever owns it
CartFindFirst(email) == IF Len(carts) = 0 THEN 0 ELSE 1

\* Cart.findOne({ email }): position of the first matching document, 0 for null
CartFindOne(email) ==
    LET hits == {i \in 1..Len(carts) : carts[i].email = email}
    IN  IF hits = {} THEN 0 ELSE Min(hits)

\* Product.findOne({ _id: productId }) resolves
ProductFound(productId) == productId \in DOMAIN products

\* the comparison written as ===: an ObjectId is never identical to a string
FindItemStrict(itemArray, productId) == 0

\* the comparison written as =: the first element, whatever it holds, is found
FindItemAssign(itemArray, productId) == IF Len(itemArray) > 0 THEN 1 ELSE 0

\* sum += ele.product.cost, the quantity forgotten
RECURSIVE TotalOfCosts(_)
TotalOfCosts(itemArray) ==
    IF itemArray = <<>> THEN 0
    ELSE itemArray[1].product.cost + TotalOfCosts(Tail(itemArray))

\* itemArray.find(ele => ele.product._id == productId), then indexOf: 0 for none
FindItem(itemArray, productId) ==
    LET hits == {i \in 1..Len(itemArray) : itemArray[i].product._id = productId}
    IN  IF hits = {} THEN 0 ELSE Min(hits)

\* splice(idx) without a delete count: everything from idx on is removed
SpliceToEnd(itemArray, idx) == SubSeq(itemArray, 1, idx - 1)

\* cartItems.splice(idx, 1)
Splice(itemArray, idx) ==
    [i \in 1..(Len(itemArray) - 1) |->
        IF i < idx THEN itemArray[i] ELSE itemArray[i + 1]]

\* the total taken from a fresh catalog lookup of each line's product
RECURSIVE TotalAtCatalogCost(_)
TotalAtCatalogCost(itemArray) ==
    IF itemArray = <<>> THEN 0
    ELSE products[itemArray[1].product._id] * itemArray[1].quantity
         + TotalAtCatalogCost(Tail(itemArray))

\* sum += ele.product.cost * ele.quantity, over cartItems
RECURSIVE Total(_)
Total(itemArray) ==
    IF itemArray = <<>> THEN 0
    ELSE itemArray[1].product.cost * itemArray[1].quantity + Total(Tail(itemArray))

\* user.hasSetNonDefaultAddress()
HasSetNonDefaultAddress(u) == u.address

\* the balance tested against undefined only: a number is never refused
FalsyUndefinedOnly(n) == FALSE

\* !user.walletMoney, walletMoney a number: 0 is falsy
Falsy(n) == n = 0

\* throw new ApiError(code, ...): nothing was written
Throw(code) ==
    /\ status' = code
    /\ ret' = Thrown
    /\ UNCHANGED <<carts, products, users>>

\* a cart that became empty is removed from the collection instead of saved
SaveOrRemoveEmpty(i, itemArray) ==
    carts' = IF itemArray = <<>>
             THEN [k \in 1..(Len(carts) - 1) |-> IF k < i THEN carts[k] ELSE carts[k + 1]]
             ELSE [carts EXCEPT ![i].cartItems = itemArray]

\* cart.save() of the document at position i with its cartItems replaced
Save(i, itemArray) ==
    carts' = [carts EXCEPT ![i].cartItems = itemArray]

Request(op, email, productId, quantity) ==
    [op |-> op, email |-> email, productId |-> productId, quantity |-> quantity]

\* a slot with no call in flight
Idle == [pc |-> "idle", email |-> "u1", productId |-> "p1", quantity |-> 0,
         found |-> 0, cartItems |-> <<>>]

\* ---------------------------------------------------------------- Init
Init ==
    /\ carts = <<>>
    /\ \/ /\ users \in [{"u1"} -> [walletMoney : Wallets, address : BOOLEAN]]
          /\ products \in [{"p1", "p2"} -> Costs]
       \/ /\ users \in [Emails -> [walletMoney : {100}, address : {TRUE}]]
          /\ products \in [{"p1"} -> Costs]
    /\ call = Request("none", "u1", "p1", 0)
    /\ status = NoError
    /\ ret = Nothing
    /\ user = UserObject("u1")
    /\ inflight = [r \in Slots |-> Idle]

\* ------------------------------------------------------------- handlers
\* a cart created on the fly for a user who has none
getCartByUserOrCreate(email) ==
    LET i == CartFindOne(email)
        doc == [email |-> email, cartItems |-> <<>>]
    IN  /\ call' = Request("get", email, "p1", 0)
        /\ user' = UserObject(email)
        /\ status' = NoError
        /\ ret' = Returned(IF i = 0 THEN doc ELSE carts[i])
        /\ carts' = IF i = 0 THEN Append(carts, doc) ELSE carts
        /\ UNCHANGED <<products, users>>

getCartByUser(email) ==
    LET i == CartFindOne(email)
    IN  /\ call' = Request("get", email, "p1", 0)
        /\ user' = UserObject(email)
        /\ IF i = 0
           THEN Throw(NOT_FOUND)
           ELSE /\ status' = NoError
                /\ ret' = Returned(carts[i])
                /\ UNCHANGED <<carts, products, users>>

\* the cart looked up, and created empty when missing, before the product
addProductToCartCartFirst(email, productId, quantity) ==
    LET i == CartFindOne(email)
        found == IF i = 0
                 THEN Append(carts, [email |-> email, cartItems |-> <<>>])
                 ELSE carts
        j == IF i = 0 THEN Len(found) ELSE i
    IN  /\ call' = Request("add", email, productId, quantity)
        /\ user' = UserObject(email)
        /\ IF ~ProductFound(productId)
           THEN /\ status' = BAD_REQUEST
                /\ ret' = Thrown
                /\ carts' = found
                /\ UNCHANGED <<products, users>>
           ELSE IF FindItem(found[j].cartItems, productId) # 0
           THEN Throw(BAD_REQUEST)
           ELSE /\ Len(found[j].cartItems) < MaxItems
                /\ carts' = [found EXCEPT ![j].cartItems =
                                Append(@, CartItem(ProductDoc(productId), quantity))]
                /\ status' = NoError
                /\ ret' = Returned(carts'[j])
                /\ UNCHANGED <<products, users>>

addProductToCart(email, productId, quantity) ==
    LET i == CartFindOne(email)
    IN  /\ call' = Request("add", email, productId, quantity)
        /\ user' = UserObject(email)
        /\ IF ~ProductFound(productId)
           THEN Throw(BAD_REQUEST)
           ELSE IF i = 0
           THEN \E created \in BOOLEAN :
                   IF created
                   THEN LET doc == [email |-> email,
                                    cartItems |->
                                      <<CartItem(ProductDoc(productId), quantity)>>]
                        IN  /\ carts' = Append(carts, doc)
                            /\ status' = NoError
                            /\ ret' = Returned(doc)
                            /\ UNCHANGED <<products, users>>
                   ELSE Throw(INTERNAL_SERVER_ERROR)
           ELSE IF FindItem(carts[i].cartItems, productId) # 0
           THEN Throw(BAD_REQUEST)
           ELSE LET pushed == Append(carts[i].cartItems,
                                     CartItem(ProductDoc(productId), quantity))
                IN  /\ Len(carts[i].cartItems) < MaxItems
                    /\ Save(i, pushed)
                    /\ status' = NoError
                    /\ ret' = Returned([carts[i] EXCEPT !.cartItems = pushed])
                    /\ UNCHANGED <<products, users>>

\* the line replaced by a new one built from the product just looked up
updateProductInCartResnapshot(email, productId, quantity) ==
    LET i == CartFindOne(email)
    IN  /\ call' = Request("update", email, productId, quantity)
        /\ user' = UserObject(email)
        /\ IF i = 0
           THEN Throw(BAD_REQUEST)
           ELSE IF ~ProductFound(productId)
           THEN Throw(BAD_REQUEST)
           ELSE LET idx == FindItem(carts[i].cartItems, productId)
                IN  IF idx = 0
                    THEN Throw(BAD_REQUEST)
                    ELSE LET updated == [carts[i].cartItems EXCEPT
                                            ![idx] = CartItem(ProductDoc(productId),
                                                              quantity)]
                         IN  /\ Save(i, updated)
                             /\ status' = NoError
                             /\ ret' = Returned([carts[i] EXCEPT !.cartItems = updated])
                             /\ UNCHANGED <<products, users>>

updateProductInCart(email, productId, quantity) ==
    LET i == CartFindOne(email)
    IN  /\ call' = Request("update", email, productId, quantity)
        /\ user' = UserObject(email)
        /\ IF i = 0
           THEN Throw(BAD_REQUEST)
           ELSE IF ~ProductFound(productId)
           THEN Throw(BAD_REQUEST)
           ELSE LET idx == FindItem(carts[i].cartItems, productId)
                IN  IF idx = 0
                    THEN Throw(BAD_REQUEST)
                    ELSE LET updated == [carts[i].cartItems EXCEPT
                                            ![idx].quantity = quantity]
                         IN  /\ Save(i, updated)
                             /\ status' = NoError
                             /\ ret' = Returned([carts[i] EXCEPT !.cartItems = updated])
                             /\ UNCHANGED <<products, users>>

deleteProductFromCart(email, productId) ==
    LET i == CartFindOne(email)
    IN  /\ call' = Request("delete", email, productId, 0)
        /\ user' = UserObject(email)
        /\ IF i = 0
           THEN Throw(BAD_REQUEST)
           ELSE LET idx == FindItem(carts[i].cartItems, productId)
                IN  IF idx = 0
                    THEN Throw(BAD_REQUEST)
                    ELSE LET spliced == Splice(carts[i].cartItems, idx)
                         IN  /\ Save(i, spliced)
                             /\ status' = NoError
                             /\ ret' = Returned([carts[i] EXCEPT !.cartItems = spliced])
                             /\ UNCHANGED <<products, users>>

\* a checkout that refuses a balance smaller than the total
checkoutBalanceChecked(email) ==
    LET i == CartFindOne(email)
        u == UserObject(email)
    IN  /\ call' = Request("checkout", email, "p1", 0)
        /\ IF i = 0
           THEN Throw(NOT_FOUND) /\ user' = u
           ELSE IF Len(carts[i].cartItems) = 0
           THEN Throw(BAD_REQUEST) /\ user' = u
           ELSE IF ~HasSetNonDefaultAddress(u)
           THEN Throw(BAD_REQUEST) /\ user' = u
           ELSE IF Falsy(u.walletMoney) \/ u.walletMoney < Total(carts[i].cartItems)
           THEN Throw(BAD_REQUEST) /\ user' = u
           ELSE /\ user' = [u EXCEPT !.walletMoney = @ - Total(carts[i].cartItems)]
                /\ Save(i, <<>>)
                /\ status' = NoError
                /\ ret' = Nothing
                /\ UNCHANGED <<products, users>>

checkout(email) ==
    LET i == CartFindOne(email)
        u == UserObject(email)
    IN  /\ call' = Request("checkout", email, "p1", 0)
        /\ IF i = 0
           THEN Throw(NOT_FOUND) /\ user' = u
           ELSE IF Len(carts[i].cartItems) = 0
           THEN Throw(BAD_REQUEST) /\ user' = u
           ELSE IF ~HasSetNonDefaultAddress(u)
           THEN Throw(BAD_REQUEST) /\ user' = u
           ELSE IF Falsy(u.walletMoney)
           THEN Throw(BAD_REQUEST) /\ user' = u
           ELSE /\ user' = [u EXCEPT !.walletMoney = @ - Total(carts[i].cartItems)]
                /\ Save(i, <<>>)
                /\ status' = NoError
                /\ ret' = Nothing
                /\ UNCHANGED <<products, users>>

\* ---------------------------------------------------------- environment
\* the catalog reprices a product it holds
setProductCost(productId, cost) ==
    /\ ProductFound(productId)
    /\ products[productId] # cost
    /\ products' = [products EXCEPT ![productId] = cost]
    /\ call' = Request("setCost", call.email, productId, 0)
    /\ status' = NoError
    /\ ret' = Nothing
    /\ UNCHANGED <<carts, users, user>>

\* ----------------------------------------------------------------- Next
Next ==
    \/ \E email \in DOMAIN users : getCartByUser(email) /\ UNCHANGED inflight
    \/ \E email \in DOMAIN users, productId \in ProductIds, quantity \in Quantities :
          addProductToCart(email, productId, quantity) /\ UNCHANGED inflight
    \/ \E email \in DOMAIN users, productId \in ProductIds, quantity \in Quantities :
          updateProductInCart(email, productId, quantity) /\ UNCHANGED inflight
    \/ \E email \in DOMAIN users, productId \in ProductIds :
          deleteProductFromCart(email, productId) /\ UNCHANGED inflight
    \/ \E email \in DOMAIN users : checkout(email) /\ UNCHANGED inflight
    \/ \E productId \in ProductIds, cost \in Costs :
          setProductCost(productId, cost) /\ UNCHANGED inflight

Spec == Init /\ [][Next]_vars

\* ------------------------------------ addProductToCart, await by await
\* Two addProductToCart calls run at the same time; each is suspended at its
\* awaits (Product.findOne, Cart.findOne, Cart.create, save) and the other
\* may run in between.  Of what a call observes only the status of its
\* outcome is kept.

\* the Cart collection's unique key on the owner: no document has this email
EmailKeyFreeNoIndex(email) == TRUE

EmailKeyFree(email) == \A i \in 1..Len(carts) : carts[i].email # email

\* lines 54-60: Product.findOne, throw 400 when the product is missing
addProductFindOne(r, email, productId, quantity) ==
    /\ inflight[r].pc = "idle"
    /\ UNCHANGED <<call, ret, user>>
    /\ IF ~ProductFound(productId)
       THEN /\ status' = BAD_REQUEST
            /\ UNCHANGED <<carts, products, users, inflight>>
       ELSE /\ inflight' = [inflight EXCEPT ![r] =
                              [Idle EXCEPT !.pc = "cartFindOne", !.email = email,
                                           !.productId = productId,
                                           !.quantity = quantity]]
            /\ UNCHANGED <<carts, products, users, status>>

\* line 62: Cart.findOne, the document found is copied into the request
addCartFindOne(r) ==
    LET i == CartFindOne(inflight[r].email)
    IN  /\ inflight[r].pc = "cartFindOne"
        /\ inflight' = [inflight EXCEPT
                          ![r].pc = IF i = 0 THEN "create" ELSE "push",
                          ![r].found = i,
                          ![r].cartItems = IF i = 0 THEN <<>> ELSE carts[i].cartItems]
        /\ UNCHANGED <<carts, products, users, call, status, ret, user>>

\* lines 64-78: Cart.create; the store refuses a second document of an owner
addCartCreate(r) ==
    LET q == inflight[r]
        doc == [email |-> q.email,
                cartItems |-> <<CartItem(ProductDoc(q.productId), q.quantity)>>]
    IN  /\ q.pc = "create"
        /\ UNCHANGED <<products, users, call, ret, user>>
        /\ IF EmailKeyFree(q.email)
           THEN /\ Len(carts) < MaxCarts
                /\ carts' = Append(carts, doc)
                /\ inflight' = [inflight EXCEPT ![r].pc = "save",
                                                ![r].found = Len(carts) + 1,
                                                ![r].cartItems = doc.cartItems]
                /\ UNCHANGED status
           ELSE /\ status' = INTERNAL_SERVER_ERROR
                /\ inflight' = [inflight EXCEPT ![r] = Idle]
                /\ UNCHANGED carts

\* lines 79-80: save of the document just created, then return it
addSaveCreated(r) ==
    LET q == inflight[r]
    IN  /\ q.pc = "save"
        /\ Save(q.found, q.cartItems)
        /\ status' = NoError
        /\ inflight' = [inflight EXCEPT ![r] = Idle]
        /\ UNCHANGED <<products, users, call, ret, user>>

\* lines 82-97: search the copy, throw 400 or push the line and save the copy
addPushAndSave(r) ==
    LET q == inflight[r]
        pushed == Append(q.cartItems, CartItem(ProductDoc(q.productId), q.quantity))
    IN  /\ q.pc = "push"
        /\ inflight' = [inflight EXCEPT ![r] = Idle]
        /\ UNCHANGED <<products, users, call, ret, user>>
        /\ IF FindItem(q.cartItems, q.productId) # 0
           THEN /\ status' = BAD_REQUEST
                /\ UNCHANGED carts
           ELSE /\ Len(q.cartItems) < MaxItems
                /\ Save(q.found, pushed)
                /\ status' = NoError

InitRace ==
    /\ carts = <<>>
    /\ \/ /\ users = [e \in Emails |-> [walletMoney |-> 100, address |-> TRUE]]
          /\ products = [p \in {"p1"} |-> 10]
       \/ /\ users = [e \in {"u1"} |-> [walletMoney |-> 100, address |-> TRUE]]
          /\ products = [p \in {"p1", "p2"} |-> IF p = "p1" THEN 10 ELSE 5]
    /\ call = Request("none", "u1", "p1", 0)
    /\ status = NoError
    /\ ret = Nothing
    /\ user = UserObject("u1")
    /\ inflight = [r \in Slots |-> Idle]

NextRace ==
    \/ \E r \in Slots, email \in DOMAIN users, productId \in ProductIds,
          quantity \in Quantities : addProductFindOne(r, email, productId, quantity)
    \/ \E r \in Slots : addCartFindOne(r)
    \/ \E r \in Slots : addCartCreate(r)
    \/ \E r \in Slots : addSaveCreated(r)
    \/ \E r \in Slots : addPushAndSave(r)

SpecRace == InitRace /\ [][NextRace]_vars

\* ------------------------------------------------- vocabulary of the claims
\* the cart documents of one user in a Cart collection
DocsOf(store, email) == {i \in 1..Len(store) : store[i].email = email}

HasCart(store, email) == DocsOf(store, email) # {}

\* the line items of the user's cart, <<>> when there is no cart
ItemsOf(store, email) ==
    IF HasCart(store, email) THEN store[Min(DocsOf(store, email))].cartItems ELSE <<>>

\* sum over the first n line items of snapshot cost x quantity
RECURSIVE LineSum(_, _)
LineSum(items, n) ==
    IF n = 0 THEN 0
    ELSE LineSum(items, n - 1) + items[n].product.cost * items[n].quantity

IsCall(c, op, email) == c.op = op /\ c.email = email

\* C1: with at least one line item, a non-default address and a non-zero
\* wallet balance, checkout(user) succeeds, leaves the cart with zero line
\* items and reduces the wallet balance of the user it was handed by exactly
\* the sum over the line items of snapshot cost x quantity.
C1_CheckoutDebitsTotalAndEmptiesCart ==
    [][\A e \in DOMAIN users :
          LET items == ItemsOf(carts, e)
          IN  (/\ IsCall(call', "checkout", e)
               /\ Len(items) >= 1
               /\ users[e].address
               /\ users[e].walletMoney # 0)
              => (/\ status' = NoError
                  /\ HasCart(carts', e)
                  /\ ItemsOf(carts', e) = <<>>
                  /\ user'.email = e
                  /\ user'.walletMoney =
                        users[e].walletMoney - LineSum(items, Len(items)))]_vars

\* the spec's example: wallet 100, items (cost 10, qty 2) and (cost 5, qty 1)
\* give wallet 75 and an empty cart
C1_Witness ==
    /\ call.op = "checkout"
    /\ status = NoError
    /\ users[call.email].walletMoney = 100
    /\ user.walletMoney = 75
    /\ HasCart(carts, call.email)
    /\ ItemsOf(carts, call.email) = <<>>

\* C2: a successful checkout persists both records: the stored User record
\* holds the old balance minus the cart total and the stored cart holds zero
\* line items.
C2_CheckoutPersistsUserAndCart ==
    [][\A e \in DOMAIN users :
          LET items == ItemsOf(carts, e)
          IN  (IsCall(call', "checkout", e) /\ status' = NoError)
              => (/\ ItemsOf(carts', e) = <<>>
                  /\ users'[e].walletMoney =
                        users[e].walletMoney - LineSum(items, Len(items)))]_vars

\* C3: no cart contains two line items for the same product id.
C3_ProductUniqueInCart ==
    \A i \in 1..Len(carts) :
        \A j, k \in 1..Len(carts[i].cartItems) :
            j # k => carts[i].cartItems[j].product._id # carts[i].cartItems[k].product._id

\* a cart of two line items on which an add of a product it holds was refused
C3_Witness ==
    /\ call.op = "add"
    /\ status = BAD_REQUEST
    /\ Len(ItemsOf(carts, call.email)) = 2
    /\ \E k \in 1..2 : ItemsOf(carts, call.email)[k].product._id = call.productId

\* C4: when addProductToCart(user, p, q1) has succeeded on a user without a
\* cart and addProductToCart(user, p, q2) is called next, the second call
\* fails with 400 and the stored cart is unchanged: exactly one line item,
\* for p with quantity q1.
C4_SecondAddOfSameProductRefused ==
    [][(/\ call.op = "add"
        /\ status = NoError
        /\ Len(ItemsOf(carts, call.email)) = 1
        /\ call'.op = "add"
        /\ call'.email = call.email
        /\ call'.productId = call.productId)
       => (/\ status' = BAD_REQUEST
           /\ carts' = carts
           /\ Len(ItemsOf(carts', call.email)) = 1
           /\ ItemsOf(carts', call.email)[1].product._id = call.productId
           /\ ItemsOf(carts', call.email)[1].quantity = call.quantity)]_vars

\* the second add, with another quantity, was refused and the line kept q1
C4_Witness ==
    /\ call.op = "add"
    /\ status = BAD_REQUEST
    /\ Len(ItemsOf(carts, call.email)) = 1
    /\ ItemsOf(carts, call.email)[1].product._id = call.productId
    /\ ItemsOf(carts, call.email)[1].quantity # call.quantity

\* C5: addProductToCart with a productId that is not in the Product catalog
\* fails with 400 whatever the cart state and leaves the Cart collection
\* unchanged; it creates no cart for a user who has none.
C5_AddOfUnknownProductRefused ==
    [][\A e \in DOMAIN users :
          (IsCall(call', "add", e) /\ call'.productId \notin DOMAIN products)
          => (/\ status' = BAD_REQUEST
              /\ carts' = carts
              /\ HasCart(carts', e) = HasCart(carts, e))]_vars

\* an unknown product was refused for a user who still has no cart
C5_Witness ==
    /\ call.op = "add"
    /\ call.productId \notin DOMAIN products
    /\ status = BAD_REQUEST
    /\ ~HasCart(carts, call.email)

\* C6: updateProductInCart on an existing cart without a line item for
\* productId fails with 400 and leaves the stored cart unchanged, whether or
\* not productId is in the catalog.
C6_UpdateOfAbsentLineRefused ==
    [][\A e \in DOMAIN users :
          (/\ IsCall(call', "update", e)
           /\ HasCart(carts, e)
           /\ \A k \in 1..Len(ItemsOf(carts, e)) :
                 ItemsOf(carts, e)[k].product._id # call'.productId)
          => (/\ status' = BAD_REQUEST
              /\ carts' = carts)]_vars

\* a catalog product that is not in the (non-empty) cart was refused
C6_Witness ==
    /\ call.op = "update"
    /\ status = BAD_REQUEST
    /\ call.productId \in DOMAIN products
    /\ HasCart(carts, call.email)
    /\ Len(ItemsOf(carts, call.email)) >= 1
    /\ \A k \in 1..Len(ItemsOf(carts, call.email)) :
          ItemsOf(carts, call.email)[k].product._id # call.productId

\* C7: deleteProductFromCart(user, p) on a cart whose only line item is p
\* succeeds and leaves the cart record existing with zero line items; a
\* following getCartByUser(user) returns that empty cart, not 404.
C7_DeleteOfOnlyLineKeepsCart ==
    [][\A e \in DOMAIN users :
          /\ (/\ IsCall(call', "delete", e)
              /\ Len(ItemsOf(carts, e)) = 1
              /\ ItemsOf(carts, e)[1].product._id = call'.productId)
             => (/\ status' = NoError
                 /\ HasCart(carts', e)
                 /\ ItemsOf(carts', e) = <<>>)
          /\ (/\ IsCall(call, "delete", e)
              /\ status = NoError
              /\ ItemsOf(carts, e) = <<>>
              /\ IsCall(call', "get", e))
             => (/\ status' = NoError
                 /\ ret'.kind = "cart"
                 /\ ret'.cart.email = e
                 /\ ret'.cart.cartItems = <<>>)]_vars

\* the delete of the only line succeeded and the cart is still there, empty
C7_Witness ==
    /\ call.op = "delete"
    /\ status = NoError
    /\ ret = Returned([email |-> call.email, cartItems |-> <<>>])
    /\ HasCart(carts, call.email)
    /\ ItemsOf(carts, call.email) = <<>>

\* C8: checkout for a user whose wallet balance is 0, with a non-empty cart
\* and a non-default address, fails with 400 and leaves the line items and
\* the wallet balance unchanged.
C8_CheckoutWithZeroBalanceRefused ==
    [][\A e \in DOMAIN users :
          (/\ IsCall(call', "checkout", e)
           /\ Len(ItemsOf(carts, e)) >= 1
           /\ users[e].address
           /\ users[e].walletMoney = 0)
          => (/\ status' = BAD_REQUEST
              /\ carts' = carts
              /\ users' = users
              /\ user'.walletMoney = 0)]_vars

C8_Witness ==
    /\ call.op = "checkout"
    /\ status = BAD_REQUEST
    /\ Len(ItemsOf(carts, call.email)) >= 1
    /\ users[call.email].address
    /\ users[call.email].walletMoney = 0
    /\ user.walletMoney = 0

\* C9: checkout fails with 404 when the user has no cart and with 400 when
\* the cart has zero line items, whatever the address flag and the wallet
\* balance; the wallet balance and the Cart collection are unchanged.
C9_CheckoutWithoutCartOrLinesRefused ==
    [][\A e \in DOMAIN users :
          IsCall(call', "checkout", e)
          => /\ ~HasCart(carts, e)
                => (/\ status' = NOT_FOUND
                    /\ carts' = carts
                    /\ users' = users
                    /\ user'.walletMoney = users[e].walletMoney)
             /\ (HasCart(carts, e) /\ ItemsOf(carts, e) = <<>>)
                => (/\ status' = BAD_REQUEST
                    /\ carts' = carts
                    /\ users' = users
                    /\ user'.walletMoney = users[e].walletMoney)]_vars

\* a user with an address and a balance was told 404 for the missing cart
C9_Witness ==
    /\ call.op = "checkout"
    /\ status = NOT_FOUND
    /\ ~HasCart(carts, call.email)
    /\ users[call.email].address
    /\ users[call.email].walletMoney = 100

\* C10: a line item keeps the product cost captured when addProductToCart
\* ran: the add stores the catalog cost of that moment, no later step (a
\* catalog price change included) alters the cost of a line that stays in
\* the cart, and checkout debits the stored cost x quantity.
C10_LineKeepsAddTimeCost ==
    [][\A e \in DOMAIN users :
          LET old == ItemsOf(carts, e)
              new == ItemsOf(carts', e)
          IN  /\ (IsCall(call', "add", e) /\ status' = NoError)
                 => (/\ Len(new) = Len(old) + 1
                     /\ new[Len(new)].product._id = call'.productId
                     /\ new[Len(new)].product.cost = products[call'.productId])
              /\ \/ carts' = carts
                 \/ \A j \in 1..Len(old), k \in 1..Len(new) :
                       old[j].product._id = new[k].product._id
                       => old[j].product.cost = new[k].product.cost
              /\ call'.op = "setCost" => new = old
              /\ (IsCall(call', "checkout", e) /\ status' = NoError)
                 => user'.walletMoney =
                       users[e].walletMoney - LineSum(old, Len(old))]_vars

\* the catalog repriced a product and the cart line still holds the old cost
C10_Witness ==
    /\ call.op = "setCost"
    /\ \E i \in 1..Len(carts) : \E k \in 1..Len(carts[i].cartItems) :
          /\ carts[i].cartItems[k].product._id = call.productId
          /\ carts[i].cartItems[k].product.cost # products[call.productId]

\* C11: every line item of every cart has quantity >= 1, whatever integer
\* quantity is passed to addProductToCart and updateProductInCart.
C11_QuantityAtLeastOne ==
    \A i \in 1..Len(carts) :
        \A k \in 1..Len(carts[i].cartItems) : carts[i].cartItems[k].quantity >= 1

\* C12: getCartByUser fails with 404 exactly when the user has no cart
\* document; otherwise it returns the cart as stored; either way the Cart
\* collection and every wallet balance are unchanged.
C12_GetReturnsStoredCartOrNotFound ==
    [][\A e \in DOMAIN users :
          IsCall(call', "get", e)
          => (/\ (status' = NOT_FOUND) <=> ~HasCart(carts, e)
              /\ ~HasCart(carts, e) => ret' = Thrown
              /\ HasCart(carts, e)
                 => (/\ status' = NoError
                     /\ ret' = Returned([email |-> e, cartItems |-> ItemsOf(carts, e)]))
              /\ carts' = carts
              /\ users' = users
              /\ user'.walletMoney = users[e].walletMoney)]_vars

\* a get returned the stored cart with its line items
C12_Witness ==
    /\ call.op = "get"
    /\ status = NoError
    /\ Len(ItemsOf(carts, call.email)) >= 1
    /\ ret = Returned([email |-> call.email, cartItems |-> ItemsOf(carts, call.email)])

\* C13: a successful deleteProductFromCart removes the line item for
\* productId, persists the cart, and returns nothing to its caller.
C13_DeleteReturnsNothing ==
    [][\A e \in DOMAIN users :
          (IsCall(call', "delete", e) /\ status' = NoError)
          => (/\ Len(ItemsOf(carts', e)) = Len(ItemsOf(carts, e)) - 1
              /\ \A k \in 1..Len(ItemsOf(carts', e)) :
                    ItemsOf(carts', e)[k].product._id # call'.productId
              /\ ret' = Nothing)]_vars

\* C14: checkout does not compare the wallet balance with the cart total:
\* with a non-empty cart, an address set and a non-zero balance b smaller
\* than the total t, checkout succeeds and the resulting balance is b - t,
\* a negative number.
C14_CheckoutOverdrawsWallet ==
    [][\A e \in DOMAIN users :
          LET items == ItemsOf(carts, e)
              t == LineSum(items, Len(items))
              b == users[e].walletMoney
          IN  (/\ IsCall(call', "checkout", e)
               /\ Len(items) >= 1
               /\ users[e].address
               /\ b # 0
               /\ t > b)
              => (/\ status' = NoError
                  /\ user'.walletMoney = b - t
                  /\ user'.walletMoney < 0)]_vars

\* a checkout succeeded and left the user it was handed with a negative balance
C14_Witness ==
    /\ call.op = "checkout"
    /\ status = NoError
    /\ users[call.email].walletMoney > 0
    /\ user.walletMoney < 0

\* C15: a successful addProductToCart(user, p, q) yields, when the user had
\* no cart, a new cart of the user with exactly the line item (p, q); when
\* the user had a cart without p, the same cart with its previous line items
\* unchanged and in order, followed by the new line item (p, q).
C15_AddAppendsLine ==
    [][\A e \in DOMAIN users :
          LET line == [product |-> [_id |-> call'.productId,
                                    cost |-> products[call'.productId]],
                       quantity |-> call'.quantity]
          IN  (IsCall(call', "add", e) /\ status' = NoError)
              => (/\ ~HasCart(carts, e)
                     => (/\ carts' = Append(carts, [email |-> e, cartItems |-> <<line>>])
                         /\ ret' = Returned([email |-> e, cartItems |-> <<line>>]))
                  /\ HasCart(carts, e)
                     => (/\ Len(carts') = Len(carts)
                         /\ ItemsOf(carts', e) = Append(ItemsOf(carts, e), line)
                         /\ ret' = Returned([email |-> e,
                                             cartItems |-> ItemsOf(carts', e)])))]_vars

\* an add put (p, q), q = 2, behind the line the cart already had
C15_Witness ==
    /\ call.op = "add"
    /\ status = NoError
    /\ Len(ItemsOf(carts, call.email)) = 2
    /\ call.quantity = 2
    /\ ItemsOf(carts, call.email)[2].product._id = call.productId
    /\ ItemsOf(carts, call.email)[2].quantity = 2

\* C16: a successful updateProductInCart(user, p, q) changes only the
\* quantity of the line item for p, to q: the number of line items, their
\* order, every other quantity and every product snapshot are unchanged.
C16_UpdateChangesOnlyQuantity ==
    [][\A e \in DOMAIN users :
          LET old == ItemsOf(carts, e)
              new == ItemsOf(carts', e)
          IN  (IsCall(call', "update", e) /\ status' = NoError)
              => (/\ Len(carts') = Len(carts)
                  /\ Len(new) = Len(old)
                  /\ \A k \in 1..Len(old) :
                        /\ new[k].product = old[k].product
                        /\ new[k].quantity =
                              IF old[k].product._id = call'.productId
                              THEN call'.quantity
                              ELSE old[k].quantity)]_vars

\* an update set a new quantity on a line whose snapshot cost is no longer
\* the catalog cost, in a cart of two lines
C16_Witness ==
    /\ call.op = "update"
    /\ status = NoError
    /\ Len(ItemsOf(carts, call.email)) = 2
    /\ \E k \in 1..2 :
          /\ ItemsOf(carts, call.email)[k].product._id = call.productId
          /\ ItemsOf(carts, call.email)[k].quantity = call.quantity
          /\ ItemsOf(carts, call.email)[k].product.cost # products[call.productId]

\* C17: deleteProductFromCart fails with 400 when the user has no cart or
\* the cart has no line item for productId, leaving the Cart collection
\* unchanged; on success it removes exactly the line item for productId and
\* leaves the other line items unchanged and in the same order.
C17_DeleteRemovesExactlyTheLine ==
    [][\A e \in DOMAIN users :
          LET old == ItemsOf(carts, e)
              new == ItemsOf(carts', e)
              at == {k \in 1..Len(old) : old[k].product._id = call'.productId}
          IN  IsCall(call', "delete", e)
              => (/\ at = {} => (status' = BAD_REQUEST /\ carts' = carts)
                  /\ at # {} => status' = NoError
                  /\ status' = NoError
                     => (/\ Len(carts') = Len(carts)
                         /\ \E k \in at :
                               new = SubSeq(old, 1, k - 1) \o SubSeq(old, k + 1, Len(old))))]_vars

\* the first of two lines was deleted and the second is still there
C17_Witness ==
    /\ call.op = "delete"
    /\ status = NoError
    /\ Len(ItemsOf(carts, call.email)) = 1
    /\ ItemsOf(carts, call.email)[1].product._id = "p2"
    /\ call.productId = "p1"
    /\ ret = Returned([email |-> call.email, cartItems |-> ItemsOf(carts, call.email)])

\* C19: once a cart document exists for a user it exists in every later
\* state: no call removes it, and from then on getCartByUser(user) does not
\* fail with 404.
C19_CartRecordIsNeverRemoved ==
    [][\A e \in DOMAIN users :
          HasCart(carts, e)
          => (/\ HasCart(carts', e)
              /\ IsCall(call', "get", e) => status' # NOT_FOUND)]_vars

\* a checkout emptied the cart and its document is still in the collection
C19_Witness ==
    /\ call.op = "checkout"
    /\ status = NoError
    /\ HasCart(carts, call.email)
    /\ ItemsOf(carts, call.email) = <<>>

\* C20: a Cart Service call for user u leaves the cart document and the
\* wallet balance of every other user unchanged, whether it succeeds or
\* fails; add, update, delete and get leave u's own wallet balance unchanged.
C20_CallsTouchOnlyTheCallersCart ==
    [][\A e \in DOMAIN users :
          (call'.email = e /\ call'.op \in {"get", "add", "update", "delete", "checkout"})
          => (/\ \A o \in DOMAIN users \ {e} :
                    /\ HasCart(carts', o) = HasCart(carts, o)
                    /\ ItemsOf(carts', o) = ItemsOf(carts, o)
                    /\ Cardinality(DocsOf(carts', o)) = Cardinality(DocsOf(carts, o))
                    /\ users'[o] = users[o]
              /\ call'.op # "checkout"
                 => (/\ users'[e].walletMoney = users[e].walletMoney
                     /\ user'.walletMoney = users[e].walletMoney))]_vars

\* a call of one user changed that user's cart while the other user has a
\* cart with a line of its own
C20_Witness ==
    /\ call.op = "update"
    /\ status = NoError
    /\ \E o \in DOMAIN users \ {call.email} :
          /\ Len(ItemsOf(carts, o)) = 1
          /\ ItemsOf(carts, o)[1].quantity # call.quantity

\* C18: at most one cart document exists per user in every reachable state,
\* also when two addProductToCart calls of a user without a cart both run
\* Cart.findOne before either runs Cart.create.
C18_AtMostOneCartPerUser ==
    \A e \in DOMAIN users : Cardinality(DocsOf(carts, e)) <= 1

\* both calls found no cart; one created it and the other's create was
\* refused, leaving one document
C18_Witness ==
    /\ status = INTERNAL_SERVER_ERROR
    /\ \E r \in Slots :
          /\ inflight[r].pc = "save"
          /\ Cardinality(DocsOf(carts, inflight[r].email)) = 1
          /\ \A o \in Slots \ {r} : inflight[o].pc = "idle"

====
